---- MODULE Spec2Model ----
(***************************************************************************)
(* Model of src/src/main.rs: the text-line detection pipeline.             *)
(*                                                                         *)
(*   difference_filter / get_pixel_activation  -> activation map           *)
(*   get_activation_stats                      -> diagnostic statistics    *)
(*   get_lines                                 -> clusters (flood fill)    *)
(*   get_lines_stats                           -> bounding geometry        *)
(*   sanitise_lines                            -> size / density filter    *)
(*   get_text_lines / get_line_colors /                                    *)
(*   get_most_common_color                     -> two-colour heuristic     *)
(*   main                                      -> order of the stages and  *)
(*                                                the two saved images     *)
(*                                                                         *)
(* A coordinate is a pair <<x, y>>.  An image buffer is a function from    *)
(* the coordinates it stores explicitly to pixel values; a coordinate of   *)
(* the image that the function does not store holds the value 0 (this      *)
(* lets an image that is 100000 pixels wide be written down by its few     *)
(* non-zero pixels).  All three channels of an activation map are equal    *)
(* (main.rs:73, 137, 160), so an activation pixel is one number 0..255.    *)
(***************************************************************************)
EXTENDS Integers, Sequences, FiniteSets, TLC

VARIABLES
    image,          \* main: buffer, the decoded RGB image (coordinate -> <<r,g,b>>)
    width, height,  \* dimensions of image and of the activation map
    buffer,         \* main: activation_buffer (get_lines: buffer), mutated in place
    raw,            \* history: the activation map as difference_filter produced it
    threshold,      \* get_lines: threshold
    pc,             \* position of main / of the running function
    pos,            \* get_lines: (x, y) of the next iteration of the two for loops
    line,           \* get_lines: line, the cluster under construction
    coords,         \* get_lines: coords_to_be_checked, the work stack
    lines,          \* get_lines: lines, the clusters found so far
    stats,          \* main: stats, the result of get_activation_stats
    lines_stats,    \* main: lines_stats after get_lines_stats
    sanitised,      \* main: lines_stats after sanitise_lines
    cur,            \* get_text_lines: index of the line being classified
    idx,            \* get_line_colors: index of the next pixel of that line
    color_freqs,    \* get_line_colors: color_freqs (colour -> frequency)
    text_lines,     \* get_text_lines: text_lines
    saved           \* main: the image written to "new_" + img_path

vars == <<image, width, height, buffer, raw, threshold, pc, pos, line, coords,
          lines, stats, lines_stats, sanitised, cur, idx, color_freqs,
          text_lines, saved>>

(***************************************************************************)
(* Bounds of the model.                                                    *)
(***************************************************************************)
MaxW == 5              \* width of the activation maps drawn by Init
MaxH == 3              \* height of the activation maps drawn by Init
Spare == 4             \* a vector's allocation fails once it holds this many
                       \* entries more than the image has pixels

(***************************************************************************)
(* Pixel access.                                                           *)
(***************************************************************************)
\* The coordinates of a w x h image.
Grid(w, h) == (0 .. w - 1) \X (0 .. h - 1)

Abs(n) == IF n < 0 THEN 0 - n ELSE n

\* e, once v has its value: the iterations of a loop are evaluated one after
\* the other, each on the finished result of the one before.
After(v, e) == IF v = v THEN e ELSE e

GetPixel(buf, p) == IF p \in DOMAIN buf THEN buf[p] ELSE 0

\* *pixel = image::Rgb([0,0,0])
Deactivate(buf, p) == IF p \in DOMAIN buf THEN [buf EXCEPT ![p] = 0] ELSE buf

(***************************************************************************)
(* get_surrounding_pixels (main.rs:100-120): the in-bounds Moore           *)
(* neighbours of (x, y), in the order the two offset loops push them.      *)
(***************************************************************************)
\* The (x_offs, y_offs) pairs of the two loops, in order, without (0, 0).
Offsets == << <<-1, -1>>, <<-1, 0>>, <<-1, 1>>, <<0, -1>>, <<0, 1>>,
              <<1, -1>>, <<1, 0>>, <<1, 1>> >>

InBounds(q, w, h) == ~(q[1] < 0 \/ q[1] >= w \/ q[2] < 0 \/ q[2] >= h)

get_surrounding_pixels(p, w, h) ==
    LET offs == [k \in 1..8 |-> <<p[1] + Offsets[k][1], p[2] + Offsets[k][2]>>]
        Inside(q) == InBounds(q, w, h)
    IN  SelectSeq(offs, Inside)

(***************************************************************************)
(* get_lines (main.rs:124-175).                                            *)
(***************************************************************************)
\* Mutant of Activated: > in place of >=.
Activated_strict(buf, p, t) == GetPixel(buf, p) > t

\* The neighbour test of the flood fill (main.rs:154).
Activated(buf, p, t) == GetPixel(buf, p) >= t

\* The body of the for loop at main.rs:148-162 over the neighbours sp[k..]:
\* every neighbour still >= threshold is pushed on the stack, appended to
\* the line and deactivated.  st = [buf, line, coords].
RECURSIVE VisitNeighbours(_, _, _, _)
VisitNeighbours(st, sp, k, t) ==
    IF k > Len(sp) THEN st
    ELSE IF Activated(st.buf, sp[k], t)
         THEN VisitNeighbours([buf    |-> Deactivate(st.buf, sp[k]),
                               line   |-> Append(st.line, sp[k]),
                               coords |-> Append(st.coords, sp[k])],
                              sp, k + 1, t)
         ELSE VisitNeighbours(st, sp, k + 1, t)

\* Column-major order of the two for loops (x outer, y inner).
Before(p, q) == p[1] < q[1] \/ (p[1] = q[1] /\ p[2] <= q[2])

\* The loop position after the iteration at p.
Succ(p, h) == IF p[2] + 1 < h THEN <<p[1], p[2] + 1>> ELSE <<p[1] + 1, 0>>

\* The pixels at or after the loop position that pass the test at main.rs:131.
\* A pixel the buffer does not store is 0 and passes only when threshold = 0,
\* and then the very next pixel of the loop passes.
Seeds(buf, from, t, w, h) ==
    IF t = 0
    THEN IF from[1] < w /\ h > 0 THEN {from} ELSE {}
    ELSE {p \in DOMAIN buf : buf[p] >= t /\ Before(from, p)}

FirstOf(S) == CHOOSE p \in S : \A q \in S : Before(p, q)

\* Mutant of StartLine: the starting pixel is not deactivated.
StartLine_keeps_seed ==
    /\ pc = "scan"
    /\ Seeds(buffer, pos, threshold, width, height) # {}
    /\ LET p == FirstOf(Seeds(buffer, pos, threshold, width, height))
       IN  /\ line' = <<p>>
           /\ coords' = <<p>>
           /\ pos' = Succ(p, height)
    /\ pc' = "fill"
    /\ UNCHANGED <<image, width, height, buffer, raw, threshold, lines, stats,
                   lines_stats, sanitised, cur, idx, color_freqs, text_lines, saved>>

\* main.rs:128-137: the loops advance to the next pixel >= threshold (the
\* iterations in between change nothing), which starts a line and is
\* deactivated.
StartLine ==
    /\ pc = "scan"
    /\ Seeds(buffer, pos, threshold, width, height) # {}
    /\ LET p == FirstOf(Seeds(buffer, pos, threshold, width, height))
       IN  /\ line' = <<p>>
           /\ coords' = <<p>>
           /\ buffer' = Deactivate(buffer, p)
           /\ pos' = Succ(p, height)
    /\ pc' = "fill"
    /\ UNCHANGED <<image, width, height, raw, threshold, lines, stats, lines_stats,
                   sanitised, cur, idx, color_freqs, text_lines, saved>>

\* One iteration of the while loop at main.rs:140-163.
PopResult ==
    LET check_coord == coords[Len(coords)]
        surrounding_pixels == get_surrounding_pixels(check_coord, width, height)
    IN  VisitNeighbours([buf |-> buffer, line |-> line,
                         coords |-> SubSeq(coords, 1, Len(coords) - 1)],
                        surrounding_pixels, 1, threshold)

\* The number of entries the cluster vector can hold.
Capacity == width * height + Spare

Pop ==
    /\ pc = "fill"
    /\ coords # <<>>
    /\ LET r == PopResult
       IN  /\ Len(r.line) <= Capacity
           /\ buffer' = r.buf
           /\ line' = r.line
           /\ coords' = r.coords
    /\ UNCHANGED <<image, width, height, raw, threshold, pc, pos, lines, stats,
                   lines_stats, sanitised, cur, idx, color_freqs, text_lines,
                   saved>>

\* line.push (main.rs:157) when the vector cannot grow any further: the
\* allocation fails and the process aborts.
PopOom ==
    /\ pc = "fill"
    /\ coords # <<>>
    /\ Len(PopResult.line) > Capacity
    /\ pc' = "oom"
    /\ UNCHANGED <<image, width, height, buffer, raw, threshold, pos, line, coords,
                   lines, stats, lines_stats, sanitised, cur, idx, color_freqs,
                   text_lines, saved>>

\* main.rs:164-169: the stack is empty; a line of more than 4 pixels is kept.
TINY == 4

KeepLine(l) == Len(l) > TINY

EndLine ==
    /\ pc = "fill"
    /\ coords = <<>>
    /\ lines' = IF KeepLine(line) THEN Append(lines, line) ELSE lines
    /\ line' = <<>>
    /\ pc' = "scan"
    /\ UNCHANGED <<image, width, height, buffer, raw, threshold, pos, coords, stats,
                   lines_stats, sanitised, cur, idx, color_freqs, text_lines,
                   saved>>

\* main.rs:174: both loops are over, get_lines returns lines.
ReturnLines ==
    /\ pc = "scan"
    /\ Seeds(buffer, pos, threshold, width, height) = {}
    /\ pos' = <<width, 0>>
    /\ pc' = "lines_stats"
    /\ UNCHANGED <<image, width, height, buffer, raw, threshold, line, coords, lines,
                   stats, lines_stats, sanitised, cur, idx, color_freqs,
                   text_lines, saved>>

(***************************************************************************)
(* f32 arithmetic.  A positive f32 is [m, e] with 2^23 <= m < 2^24 and     *)
(* value m * 2^e; zero is [m |-> 0, e |-> 0]; NaN is [m |-> -1, e |-> 0].  *)
(* Every operation rounds its exact result to the nearest such value, ties *)
(* to the even mantissa, as the hardware does.  No operation of the        *)
(* pipeline produces a negative, subnormal or infinite value.              *)
(***************************************************************************)
\* 2^k for 0 <= k <= 30.
Pow2 ==
    [k \in 0 .. 30 |->
        <<1, 2, 4, 8, 16, 32, 64, 128, 256, 512, 1024, 2048, 4096, 8192,
          16384, 32768, 65536, 131072, 262144, 524288, 1048576, 2097152,
          4194304, 8388608, 16777216, 33554432, 67108864, 134217728,
          268435456, 536870912, 1073741824>>[k + 1]]

F32Zero == [m |-> 0, e |-> 0]
F32NaN  == [m |-> 0 - 1, e |-> 0]

\* The number of binary digits of q > 0.
BitLen(q) == CHOOSE k \in 1 .. 30 : Pow2[k - 1] <= q /\ q < Pow2[k]

\* The f32 nearest to (q + s) * 2^e, where 0 <= s < 1 and sticky says s > 0.
\* When sticky is set q carries at least two digits more than a mantissa.
F32Round(q, e, sticky) ==
    IF q = 0 THEN F32Zero
    ELSE LET bits == BitLen(q)
         IN  IF bits <= 24
             THEN [m |-> q * Pow2[24 - bits], e |-> e - (24 - bits)]
             ELSE LET shift == bits - 24
                      m0    == q \div Pow2[shift]
                      rem   == q % Pow2[shift]
                      half  == Pow2[shift - 1]
                      up    == \/ rem > half
                               \/ rem = half /\ (sticky \/ m0 % 2 = 1)
                      m1    == IF up THEN m0 + 1 ELSE m0
                  IN  IF m1 = Pow2[24]
                      THEN [m |-> Pow2[23], e |-> e + shift + 1]
                      ELSE [m |-> m1, e |-> e + shift]

\* n as f32, for 0 <= n < 2^24 (exact).
F32FromInt(n) == F32Round(n, 0, FALSE)

\* x + y.
F32Add(x, y) ==
    IF x.m < 0 \/ y.m < 0 THEN F32NaN
    ELSE IF x.m = 0 THEN y
    ELSE IF y.m = 0 THEN x
    ELSE LET hi == IF x.e >= y.e THEN x ELSE y
             lo == IF x.e >= y.e THEN y ELSE x
             d  == hi.e - lo.e
             shifted == IF d >= 27 THEN 0 ELSE (lo.m * 8) \div Pow2[d]
             sticky  == IF d >= 27 THEN TRUE ELSE (lo.m * 8) % Pow2[d] # 0
         IN  F32Round(hi.m * 8 + shifted, hi.e - 3, sticky)

\* x * y, by 12-digit limbs so that no intermediate exceeds 31 digits.
F32Mul(x, y) ==
    IF x.m < 0 \/ y.m < 0 THEN F32NaN
    ELSE IF x.m = 0 \/ y.m = 0 THEN F32Zero
    ELSE LET a1 == x.m \div 4096
             a0 == x.m % 4096
             b1 == y.m \div 4096
             b0 == y.m % 4096
             mid == a1 * b0 + a0 * b1
             losum == a0 * b0 + (mid % 4096) * 4096
             lo == losum % Pow2[24]
             hi == a1 * b1 + mid \div 4096 + losum \div Pow2[24]
             \* the product is (hi * 2^24 + lo) * 2^(x.e + y.e); keep the top
             \* digits of it and fold the rest into sticky
         IN  F32Round(hi * 16 + lo \div Pow2[20], x.e + y.e + 20,
                      lo % Pow2[20] # 0)

\* x / n for an integer 0 <= n <= 255 as f32; 0.0 / 0.0 is NaN.  The
\* quotient of x.m * 2^k by n is taken to 26 digits, in two steps so that
\* no intermediate exceeds 31 digits.
F32DivInt(x, n) ==
    IF x.m < 0 THEN F32NaN
    ELSE IF n = 0 THEN F32NaN
    ELSE IF x.m = 0 THEN F32Zero
    ELSE LET q1 == x.m \div n
             r1 == x.m % n
             k  == 26 - BitLen(q1)
             q  == q1 * Pow2[k] + (r1 * Pow2[k]) \div n
             r  == (r1 * Pow2[k]) % n
         IN  F32Round(q, x.e - k, r # 0)

\* x as u8: the integer part, 255 when it is larger, 0 for NaN.
F32AsU8(x) ==
    IF x.m <= 0 THEN 0
    ELSE IF x.e >= 0 THEN 255
    ELSE IF 0 - x.e >= 24 THEN 0
    ELSE LET n == x.m \div Pow2[0 - x.e] IN IF n > 255 THEN 255 ELSE n

(***************************************************************************)
(* get_pixel_activation (main.rs:11-61) and difference_filter              *)
(* (main.rs:63-76).                                                        *)
(***************************************************************************)
\* 0.6 as f32, and 1.0 - 0.6 in f32 (exact: 1 - 10066330 / 2^24).
IMMEDIATE_NEIGHBOUR_WEIGHT == [m |-> 10066330, e |-> 0 - 24]
UNIMMEDIATE_WEIGHT == [m |-> 13421772, e |-> 0 - 25]

\* The (x_offset, y_offset) pairs of the two loops, in order, without (0, 0).
Brush ==
    LET all == [k \in 1 .. 25 |-> <<((k - 1) \div 5) - 2, ((k - 1) % 5) - 2>>]
        NotCentre(o) == ~(o[1] = 0 /\ o[2] = 0)
    IN  SelectSeq(all, NotCentre)

\* Mutant of IsUnimmediate: the offsets of -2 are taken for immediate.
IsUnimmediate_positive(o) == o[1] = 2 \/ o[2] = 2

\* main.rs:45-48
IsUnimmediate(o) == o[1] = 0 - 2 \/ o[1] = 2 \/ o[2] = 0 - 2 \/ o[2] = 2

\* (|a - b| as f32) / 3.0 for two channel values (main.rs:42-43).
ChannelDifference[d \in 0 .. 255] == F32DivInt(F32FromInt(d), 3)

\* difference (main.rs:39-44) between two pixels.
Difference(c, d) ==
    F32Add(F32Add(F32Add(F32Zero, ChannelDifference[Abs(c[1] - d[1])]),
                  ChannelDifference[Abs(c[2] - d[2])]),
           ChannelDifference[Abs(c[3] - d[3])])

\* One pass of the body of the loops at main.rs:23-56, for the offset o;
\* acc holds immediate_activation, unimmediate_activation and the two
\* counts.
BrushStep(acc, img, p, w, h, o) ==
    LET q == <<p[1] + o[1], p[2] + o[2]>>
    IN  IF ~InBounds(q, w, h) THEN acc
        ELSE IF IsUnimmediate(o)
        THEN [acc EXCEPT !.unimmediate_activation =
                             F32Add(@, Difference(img[p], img[q])),
                         !.checked_no_unimmediate = @ + 1]
        ELSE [acc EXCEPT !.immediate_activation =
                             F32Add(@, Difference(img[p], img[q])),
                         !.checked_no_immediate = @ + 1]

\* The loops over the offsets Brush[lo..hi], in order.
RECURSIVE BrushFrom(_, _, _, _, _, _, _)
BrushFrom(acc, img, p, w, h, lo, hi) ==
    IF lo = hi THEN BrushStep(acc, img, p, w, h, Brush[lo])
    ELSE LET mid   == (lo + hi) \div 2
             first == BrushFrom(acc, img, p, w, h, lo, mid)
         IN  After(first, BrushFrom(first, img, p, w, h, mid + 1, hi))

get_pixel_activation(img, p, w, h) ==
    LET acc == BrushFrom([immediate_activation   |-> F32Zero,
                          unimmediate_activation |-> F32Zero,
                          checked_no_immediate   |-> 0,
                          checked_no_unimmediate |-> 0],
                         img, p, w, h, 1, Len(Brush))
        immediate_activation ==
            F32DivInt(acc.immediate_activation, acc.checked_no_immediate)
        unimmediate_activation ==
            F32DivInt(acc.unimmediate_activation, acc.checked_no_unimmediate)
    IN  F32Add(F32Mul(immediate_activation, IMMEDIATE_NEIGHBOUR_WEIGHT),
               F32Mul(unimmediate_activation, UNIMMEDIATE_WEIGHT))

difference_filter(img, w, h) ==
    [p \in Grid(w, h) |-> F32AsU8(get_pixel_activation(img, p, w, h))]

\* main.rs:375
Filter ==
    /\ pc = "filter"
    /\ raw' = difference_filter(image, width, height)
    /\ buffer' = raw'
    /\ pc' = "stats"
    /\ UNCHANGED <<image, width, height, threshold, pos, line, coords, lines, stats,
                   lines_stats, sanitised, cur, idx, color_freqs, text_lines, saved>>

(***************************************************************************)
(* get_activation_stats (main.rs:78-99).  The average is an f32 division:  *)
(* 0.0 / 0.0 is NaN and n / 0.0 is infinite; any other quotient is kept as  *)
(* its numerator and denominator.                                          *)
(***************************************************************************)
F32Div(n, d) ==
    [nan |-> (d = 0 /\ n = 0), inf |-> (d = 0 /\ n # 0), num |-> n, den |-> d]

\* The sum of pixel[0] over the pixels with values in lo..hi (the additions
\* of main.rs:92-95, grouped by value).
RECURSIVE SumOver(_, _, _)
SumOver(buf, lo, hi) ==
    IF lo = hi THEN lo * Cardinality({p \in DOMAIN buf : buf[p] = lo})
    ELSE LET mid == (lo + hi) \div 2
         IN  SumOver(buf, lo, mid) + SumOver(buf, mid + 1, hi)

MaxOf(S) == CHOOSE v \in S : \A u \in S : u <= v
MinOf(S) == CHOOSE v \in S : \A u \in S : v <= u

\* The pixel values enumerate_pixels yields: the stored ones, and 0 when the
\* image has pixels the buffer does not store.
PixelValues(buf, w, h) ==
    {buf[p] : p \in DOMAIN buf}
        \cup (IF w * h > Cardinality(DOMAIN buf) THEN {0} ELSE {})

get_activation_stats(buf, w, h) ==
    LET positive == {p \in DOMAIN buf : buf[p] > 0}
        activation_count == Cardinality(positive)
        total_activation == SumOver(buf, 1, 255)
    IN  [max |-> MaxOf(PixelValues(buf, w, h) \cup {0}),
         min |-> MinOf(PixelValues(buf, w, h) \cup {255}),
         activation_count |-> activation_count,
         avg_activation |-> F32Div(total_activation, activation_count)]

\* main.rs:376
GetActivationStats ==
    /\ pc = "stats"
    /\ stats' = get_activation_stats(buffer, width, height)
    /\ pc' = "scan"
    /\ UNCHANGED <<image, width, height, buffer, raw, threshold, pos, line, coords,
                   lines, lines_stats, sanitised, cur, idx, color_freqs,
                   text_lines, saved>>

(***************************************************************************)
(* get_lines_stats (main.rs:193-235).                                      *)
(***************************************************************************)
SENTINEL == 99999

\* One iteration of the loop at main.rs:206-219; e = [rightmost_point,
\* leftmost_point, top_point, bottom_point].
Extend(e, point) ==
    [rightmost_point |-> IF point[1] > e.rightmost_point[1]
                         THEN point ELSE e.rightmost_point,
     leftmost_point  |-> IF point[1] < e.leftmost_point[1]
                         THEN point ELSE e.leftmost_point,
     top_point       |-> IF point[2] > e.top_point[2]
                         THEN point ELSE e.top_point,
     bottom_point    |-> IF point[2] < e.bottom_point[2]
                         THEN point ELSE e.bottom_point]

\* The loop over points[lo..hi], in order.
RECURSIVE Extremes(_, _, _, _)
Extremes(e, points, lo, hi) ==
    IF lo > hi THEN e
    ELSE IF lo = hi THEN Extend(e, points[lo])
    ELSE LET mid   == (lo + hi) \div 2
             first == Extremes(e, points, lo, mid)
         IN  After(first, Extremes(first, points, mid + 1, hi))

\* A u32 subtraction: below zero it overflows (a panic in a debug build, a
\* wrapped value in a release build), written here as Underflow.
Underflow == 0 - 1

U32Sub(a, b) == IF a >= b THEN a - b ELSE Underflow

line_stats(line_points) ==
    LET e  == Extremes([rightmost_point |-> <<0, 0>>,
                        leftmost_point  |-> <<SENTINEL, 0>>,
                        top_point       |-> <<0, 0>>,
                        bottom_point    |-> <<0, SENTINEL>>],
                       line_points, 1, Len(line_points))
        dx == U32Sub(e.rightmost_point[1], e.leftmost_point[1])
        dy == U32Sub(e.top_point[2], e.bottom_point[2])
    IN  [pixels       |-> line_points,
         top_left     |-> <<e.leftmost_point[1], e.top_point[2]>>,
         top_right    |-> <<e.rightmost_point[1], e.top_point[2]>>,
         bottom_left  |-> <<e.leftmost_point[1], e.bottom_point[2]>>,
         bottom_right |-> <<e.rightmost_point[1], e.bottom_point[2]>>,
         dx           |-> dx,
         dy           |-> dy,
         area         |-> IF dx = Underflow \/ dy = Underflow
                          THEN Underflow ELSE (dx + 1) * (dy + 1)]

get_lines_stats(lines_points) ==
    [i \in 1..Len(lines_points) |-> line_stats(lines_points[i])]

\* main.rs:387
GetLinesStats ==
    /\ pc = "lines_stats"
    /\ lines_stats' = get_lines_stats(lines)
    /\ pc' = "sanitise"
    /\ UNCHANGED <<image, width, height, buffer, raw, threshold, pos, line, coords,
                   lines, stats, sanitised, cur, idx, color_freqs, text_lines,
                   saved>>

(***************************************************************************)
(* sanitise_lines (main.rs:237-257).                                       *)
(***************************************************************************)
AREA_THRESHOLD == 8
LARGER_WIDTH_THRESHOLD == 8

\* line::get_activation (main.rs:187-189) against ACTIVATION_THRESHOLD = 0.5:
\* pixels.len() / area >= 0.5 exactly when 2 * pixels.len() >= area (0.5 is
\* an f32 and the division is correctly rounded).
DenseEnough(l) == 2 * Len(l.pixels) >= l.area

MaxInt(a, b) == IF a >= b THEN a ELSE b

Retained(l) ==
    LET w == U32Sub(l.top_right[1], l.top_left[1])
        h == U32Sub(l.top_left[2], l.bottom_left[2])
    IN  /\ l.area >= AREA_THRESHOLD
        /\ MaxInt(w, h) >= LARGER_WIDTH_THRESHOLD
        /\ DenseEnough(l)

sanitise_lines(ls) == SelectSeq(ls, Retained)

\* main.rs:388
SanitiseLines ==
    /\ pc = "sanitise"
    /\ sanitised' = sanitise_lines(lines_stats)
    /\ cur' = 1
    /\ idx' = 1
    /\ pc' = "text_lines"
    /\ UNCHANGED <<image, width, height, buffer, raw, threshold, pos, line, coords,
                   lines, stats, lines_stats, color_freqs, text_lines, saved>>

(***************************************************************************)
(* get_line_colors (main.rs:265-291).  A colour is <<r, g, b>>.            *)
(***************************************************************************)
DIFFERENCE_COLOR_THRESH == 30

\* difference_squared (main.rs:274-278), an exact integer below 2^24.
DifferenceSquared(c, d) ==
    (c[1] - d[1]) * (c[1] - d[1]) + (c[2] - d[2]) * (c[2] - d[2])
        + (c[3] - d[3]) * (c[3] - d[3])

\* Mutant of Matches: < in place of <=.
Matches_strict(c, d) ==
    DifferenceSquared(c, d) < DIFFERENCE_COLOR_THRESH * DIFFERENCE_COLOR_THRESH

\* difference <= DIFFERENCE_COLOR_THRESH (main.rs:279-280): the f32 square
\* root is correctly rounded and 30 * 30 is exact, so the test is on squares.
Matches(c, d) ==
    DifferenceSquared(c, d) <= DIFFERENCE_COLOR_THRESH * DIFFERENCE_COLOR_THRESH

NoColors == [c \in {} |-> 0]

\* The orders in which an iteration over a HashMap may visit its keys: the
\* order is unspecified (it depends on the map's random hasher state).
Orders(S) ==
    {o \in [1 .. Cardinality(S) -> S] : \A i, j \in DOMAIN o : o[i] = o[j] => i = j}

\* Mutant of MatchIndex: the break leaves the scan after the first key.
MatchIndex_first_only(order, curr_color) ==
    IF order # <<>> /\ DifferenceSquared(curr_color, order[1])
                          <= DIFFERENCE_COLOR_THRESH * DIFFERENCE_COLOR_THRESH
    THEN 1 ELSE 0

\* The scan at main.rs:273-285: the position in the iteration order of the
\* first key that matches, 0 when match_found stays false.
MatchIndex(order, curr_color) ==
    IF \E i \in DOMAIN order : Matches(curr_color, order[i])
    THEN CHOOSE i \in DOMAIN order :
             /\ Matches(curr_color, order[i])
             /\ \A j \in 1 .. i - 1 : ~Matches(curr_color, order[j])
    ELSE 0

\* The body of the loop at main.rs:269-289 for one pixel.
CountColor(freqs, order, curr_color) ==
    LET i == MatchIndex(order, curr_color)
    IN  IF i # 0
        THEN [freqs EXCEPT ![order[i]] = @ + 1]
        ELSE freqs @@ (curr_color :> 1)

(***************************************************************************)
(* get_most_common_color (main.rs:293-303) for one iteration order.        *)
(***************************************************************************)
RECURSIVE MostCommonFrom(_, _, _, _, _)
MostCommonFrom(freqs, order, k, most_common, highest_freq) ==
    IF k > Len(order) THEN most_common
    ELSE IF freqs[order[k]] > highest_freq
         THEN MostCommonFrom(freqs, order, k + 1, order[k], freqs[order[k]])
         ELSE MostCommonFrom(freqs, order, k + 1, most_common, highest_freq)

get_most_common_color(freqs, order) ==
    MostCommonFrom(freqs, order, 1, <<0, 0, 0>>, 0)

(***************************************************************************)
(* get_text_lines (main.rs:306-326).                                       *)
(***************************************************************************)
\* main.rs:269-289: one pixel of the line is counted.
CountPixel ==
    /\ pc = "text_lines"
    /\ cur <= Len(sanitised)
    /\ idx <= Len(sanitised[cur].pixels)
    /\ \E order \in Orders(DOMAIN color_freqs) :
           color_freqs' = CountColor(color_freqs, order,
                                     image[sanitised[cur].pixels[idx]])
    /\ idx' = idx + 1
    /\ UNCHANGED <<image, width, height, buffer, raw, threshold, pc, pos, line,
                   coords, lines, stats, lines_stats, sanitised, cur, text_lines,
                   saved>>

\* main.rs:314-323: get_line_colors has returned; a line of exactly two
\* colours becomes a text line.
IsTwoColors(freqs) == Cardinality(DOMAIN freqs) = 2

Classify ==
    /\ pc = "text_lines"
    /\ cur <= Len(sanitised)
    /\ idx > Len(sanitised[cur].pixels)
    /\ IF IsTwoColors(color_freqs)
       THEN \E order \in Orders(DOMAIN color_freqs) :
                text_lines' = Append(text_lines,
                    [line         |-> sanitised[cur],
                     stroke_color |-> get_most_common_color(color_freqs, order),
                     text         |-> ""])
       ELSE text_lines' = text_lines
    /\ cur' = cur + 1
    /\ idx' = 1
    /\ color_freqs' = NoColors
    /\ UNCHANGED <<image, width, height, buffer, raw, threshold, pc, pos, line,
                   coords, lines, stats, lines_stats, sanitised, saved>>

\* main.rs:325: every line has been examined.
ReturnTextLines ==
    /\ pc = "text_lines"
    /\ cur > Len(sanitised)
    /\ pc' = "save"
    /\ UNCHANGED <<image, width, height, buffer, raw, threshold, pos, line, coords,
                   lines, stats, lines_stats, sanitised, cur, idx, color_freqs,
                   text_lines, saved>>

\* main.rs:423: activation_buffer.save("new_" + img_path).
Save ==
    /\ pc = "save"
    /\ saved' = buffer
    /\ pc' = "done"
    /\ UNCHANGED <<image, width, height, buffer, raw, threshold, pos, line, coords,
                   lines, stats, lines_stats, sanitised, cur, idx, color_freqs,
                   text_lines>>

(***************************************************************************)
(* Specification Spec: main from get_activation_stats (main.rs:376) to     *)
(* sanitise_lines (main.rs:388) on every activation map of MaxW x MaxH     *)
(* pixels and each threshold.                                              *)
(***************************************************************************)
LINE_THRESHOLD == 15

\* Below the threshold: 0 on the even diagonals, threshold - 1 on the odd.
\* At or above it: the threshold itself on the even diagonals, 255 on the odd.
Low(p)  == IF (p[1] + p[2]) % 2 = 0 THEN 0 ELSE LINE_THRESHOLD - 1
High(p) == IF (p[1] + p[2]) % 2 = 0 THEN LINE_THRESHOLD ELSE 255

\* The maps: any set of pixels at or above the threshold, and the map that is
\* zero everywhere.
Maps(w, h) ==
    {[p \in Grid(w, h) |-> IF p \in A THEN High(p) ELSE Low(p)] :
        A \in SUBSET Grid(w, h)}
    \cup {[p \in Grid(w, h) |-> 0]}

NoStats == [max |-> 0, min |-> 0, activation_count |-> 0,
            avg_activation |-> F32Div(0, 1)]

NoImage == [p \in {} |-> <<0, 0, 0>>]

Idle ==
    /\ pos = <<0, 0>>
    /\ line = <<>>
    /\ coords = <<>>
    /\ lines = <<>>
    /\ stats = NoStats
    /\ lines_stats = <<>>
    /\ sanitised = <<>>
    /\ cur = 1
    /\ idx = 1
    /\ color_freqs = NoColors
    /\ text_lines = <<>>
    /\ saved = <<>>

\* With threshold 0 every pixel passes the tests of get_lines whatever it
\* holds, so that threshold is paired with three maps only.
UniformMaps(w, h) ==
    {[p \in Grid(w, h) |-> v] : v \in {0, LINE_THRESHOLD, 255}}

Init ==
    /\ width = MaxW
    /\ height = MaxH
    /\ image = NoImage
    /\ \/ threshold = LINE_THRESHOLD /\ raw \in Maps(MaxW, MaxH)
       \/ threshold = 0 /\ raw \in UniformMaps(MaxW, MaxH)
    /\ buffer = raw
    /\ pc = "stats"
    /\ Idle

Next ==
    \/ GetActivationStats
    \/ StartLine
    \/ Pop
    \/ PopOom
    \/ EndLine
    \/ ReturnLines
    \/ GetLinesStats
    \/ SanitiseLines

Spec == Init /\ [][Next]_vars

(***************************************************************************)
(* Reference definitions for the claims about get_lines.                   *)
(***************************************************************************)
Range(f) == {f[i] : i \in DOMAIN f}

\* 8-connectivity.
Adjacent(p, q) == p # q /\ Abs(p[1] - q[1]) <= 1 /\ Abs(p[2] - q[2]) <= 1

\* The pixels of A connected to C through pixels of A.
RECURSIVE Grow(_, _)
Grow(C, A) ==
    LET N == {q \in A \ C : \E p \in C : Adjacent(p, q)}
    IN  IF N = {} THEN C ELSE Grow(C \cup N, A)

\* The maximal 8-connected components of A.
Components(A) == {Grow({p}, A) : p \in A}

\* The pixels of the map as get_lines received it that are >= threshold.
Original == {p \in Grid(width, height) : GetPixel(raw, p) >= threshold}

BigComponents == {C \in Components(Original) : Cardinality(C) > TINY}

\* get_lines has returned to main.
Returned == pc = "lines_stats"

\* C1: the list get_lines returns is exactly the set of maximal 8-connected
\* components of the pixels originally >= threshold that have more than 4
\* pixels: one cluster per such component, no coordinate twice in a cluster,
\* the clusters pairwise disjoint, and a pixel originally >= threshold is
\* in no cluster exactly when its component has 4 pixels or fewer.
C1_ExactComponents ==
    Returned =>
        /\ \A i \in DOMAIN lines : Cardinality(Range(lines[i])) = Len(lines[i])
        /\ \A i, j \in DOMAIN lines :
               i # j => Range(lines[i]) \cap Range(lines[j]) = {}
        /\ {Range(lines[i]) : i \in DOMAIN lines} = BigComponents
        /\ \A p \in Original :
               Cardinality({i \in DOMAIN lines : p \in Range(lines[i])})
                   = IF Cardinality(Grow({p}, Original)) > TINY THEN 1 ELSE 0

\* Two clusters are returned, one of them of more than 5 pixels.
C1_Witness ==
    /\ Returned
    /\ Len(lines) = 2
    /\ \E i \in DOMAIN lines : Len(lines[i]) > TINY + 1

\* C2: when get_lines has returned, every pixel originally >= threshold is
\* zero in the activation map and every pixel originally below it still
\* holds its original value.
C2_MapAfterExtraction ==
    Returned =>
        \A p \in Grid(width, height) :
            GetPixel(buffer, p) = IF p \in Original THEN 0 ELSE GetPixel(raw, p)

\* A returned cluster, a discarded one and a non-zero pixel below threshold.
C2_Witness ==
    /\ Returned
    /\ Len(lines) >= 1
    /\ \E p \in Original : \A i \in DOMAIN lines : p \notin Range(lines[i])
    /\ \E p \in Grid(width, height) : p \notin Original /\ GetPixel(buffer, p) > 0

(***************************************************************************)
(* Specification FairSpec: the same steps on every map of FairW x FairH    *)
(* pixels with thresholds 1, 15 and 255, and threshold 0 on the uniform     *)
(* maps; the program is single-threaded                                     *)
(* and runs whenever it has a step to take.                                *)
(***************************************************************************)
FairW == 3
FairH == 2

FairInit ==
    /\ width = FairW
    /\ height = FairH
    /\ image = NoImage
    /\ \/ threshold \in {1, LINE_THRESHOLD, 255} /\ raw \in Maps(FairW, FairH)
       \/ threshold = 0 /\ raw \in UniformMaps(FairW, FairH)
    /\ buffer = raw
    /\ pc = "stats"
    /\ Idle

FairSpec == FairInit /\ [][Next]_vars /\ WF_vars(Next)

\* C3: for every map and threshold the flood fill empties its work stack
\* and get_lines returns, with no cluster of 4 or fewer pixels in the result.
C3_GetLinesReturns ==
    <>(/\ Returned
       /\ coords = <<>>
       /\ \A i \in DOMAIN lines : Len(lines[i]) > TINY)

\* C7: on a map with no pixel > 0 get_activation_stats reports a count of 0
\* and does not compute the average as 0 / 0 (NaN).
StatsDone == pc # "stats"

C7_NoSilentNaN ==
    (StatsDone /\ \A p \in Grid(width, height) : GetPixel(raw, p) = 0) =>
        /\ stats.activation_count = 0
        /\ ~stats.avg_activation.nan

(***************************************************************************)
(* Specification WideSpec: the same steps at the pipeline's threshold on   *)
(* images whose pixels >= threshold all lie in a WideW x WideH window,     *)
(* at the origin of a WideW x WideH image or in the far corner of an       *)
(* image more than 100000 pixels wide or high.                             *)
(***************************************************************************)
WideW == 3
WideH == 2

Origins == {<<0, 0>>, <<SENTINEL + 1, 0>>, <<0, SENTINEL + 1>>}

Window(o, w, h) == (o[1] .. o[1] + w - 1) \X (o[2] .. o[2] + h - 1)

WideInit ==
    /\ image = NoImage
    /\ threshold = LINE_THRESHOLD
    /\ \E o \in Origins : \E A \in SUBSET Window(o, WideW, WideH) :
           /\ width = o[1] + WideW
           /\ height = o[2] + WideH
           /\ raw = [p \in Window(o, WideW, WideH) |->
                        IF p \in A THEN High(p) ELSE Low(p)]
    /\ buffer = raw
    /\ pc = "stats"
    /\ Idle

WideNext ==
    \/ GetActivationStats
    \/ StartLine
    \/ Pop
    \/ EndLine
    \/ ReturnLines
    \/ GetLinesStats
    \/ SanitiseLines

WideSpec == WideInit /\ [][WideNext]_vars

\* The extremes of a cluster's member coordinates.
MinX(P) == MinOf({p[1] : p \in P})
MaxX(P) == MaxOf({p[1] : p \in P})
MinY(P) == MinOf({p[2] : p \in P})
MaxY(P) == MaxOf({p[2] : p \in P})

BoundingBoxOf(l) ==
    LET P == Range(l.pixels)
    IN  /\ l.dx # Underflow
        /\ l.dy # Underflow
        /\ l.area = (MaxX(P) - MinX(P) + 1) * (MaxY(P) - MinY(P) + 1)
        /\ l.top_left = <<MinX(P), MaxY(P)>>
        /\ l.top_right = <<MaxX(P), MaxY(P)>>
        /\ l.bottom_left = <<MinX(P), MinY(P)>>
        /\ l.bottom_right = <<MaxX(P), MinY(P)>>
        /\ 1 <= Len(l.pixels)
        /\ Len(l.pixels) <= l.area

\* C4: every Line get_lines_stats makes of a cluster get_lines returned has
\* area (max_x - min_x + 1) * (max_y - min_y + 1) over the cluster's member
\* coordinates, has the crossings of those extremes as corners, has
\* 1 <= pixel_count <= area, and dx and dy are computed without underflow.
C4_BoundingBox ==
    \A i \in DOMAIN lines_stats : BoundingBoxOf(lines_stats[i])

(***************************************************************************)
(* Specification ColorSpec: get_text_lines on a line of MaxPixels - 1 or   *)
(* MaxPixels pixels, each pixel of the image under it of any colour of the *)
(* palette.                                                                *)
(***************************************************************************)
MaxPixels == 6

\* Black, two colours 30 and 60 away from it (30 away from each other), white.
Palette == {<<0, 0, 0>>, <<10, 20, 20>>, <<20, 40, 40>>, <<255, 255, 255>>}

\* A horizontal run of n pixels.
Run(n) == [i \in 1 .. n |-> <<i - 1, 0>>]

ColorInit ==
    /\ \E n \in {MaxPixels - 1, MaxPixels} :
           /\ width = n
           /\ height = 1
           /\ image \in [Grid(n, 1) -> Palette]
           /\ raw = [p \in Grid(n, 1) |-> LINE_THRESHOLD]
           /\ buffer = [p \in Grid(n, 1) |-> 0]
           /\ lines = <<Run(n)>>
    /\ threshold = LINE_THRESHOLD
    /\ pos = <<width, 0>>
    /\ line = <<>>
    /\ coords = <<>>
    /\ stats = get_activation_stats(raw, width, height)
    /\ lines_stats = get_lines_stats(lines)
    /\ sanitised = lines_stats
    /\ cur = 1
    /\ idx = 1
    /\ color_freqs = NoColors
    /\ text_lines = <<>>
    /\ saved = <<>>
    /\ pc = "text_lines"

ColorNext ==
    \/ CountPixel
    \/ Classify
    \/ ReturnTextLines

ColorSpec == ColorInit /\ [][ColorNext]_vars

(***************************************************************************)
(* Reference definitions for the claims about the classifier: the buckets  *)
(* as an ordered list of (representative, frequency) scanned in insertion  *)
(* order.                                                                  *)
(***************************************************************************)
WithinThirty(c, d) == DifferenceSquared(c, d) <= 900

RECURSIVE OrderedBuckets(_, _, _)
OrderedBuckets(buckets, colors, k) ==
    IF k > Len(colors) THEN buckets
    ELSE IF \E i \in DOMAIN buckets : WithinThirty(colors[k], buckets[i].rep)
         THEN LET i == CHOOSE i \in DOMAIN buckets :
                           /\ WithinThirty(colors[k], buckets[i].rep)
                           /\ \A j \in 1 .. i - 1 :
                                  ~WithinThirty(colors[k], buckets[j].rep)
              IN  OrderedBuckets([buckets EXCEPT ![i].freq = @ + 1], colors, k + 1)
         ELSE OrderedBuckets(Append(buckets, [rep |-> colors[k], freq |-> 1]),
                             colors, k + 1)

BucketsOf(colors) == OrderedBuckets(<<>>, colors, 1)

\* The representative of the most frequent bucket, the first-created on ties.
StrokeOf(colors) ==
    LET b == BucketsOf(colors)
        i == CHOOSE i \in DOMAIN b :
                 /\ \A j \in DOMAIN b : b[j].freq <= b[i].freq
                 /\ \A j \in 1 .. i - 1 : b[j].freq < b[i].freq
    IN  b[i].rep

\* The colours of a line's member pixels, in the order of its pixels.
ColorsOf(l) == [i \in 1 .. Len(l.pixels) |-> image[l.pixels[i]]]

\* The lines get_text_lines has decided on, and those it made text lines.
Decided == IF pc = "text_lines" THEN 1 .. cur - 1 ELSE DOMAIN sanitised
IsText(k) == \E i \in DOMAIN text_lines : text_lines[i].line = sanitised[k]

OneColor(G) == \A c, d \in G : WithinThirty(c, d)

\* S falls into exactly two colours when colours no further than 30 apart
\* count as one colour.
TwoColors(S) ==
    /\ ~OneColor(S)
    /\ \E G \in SUBSET S : OneColor(G) /\ OneColor(S \ G)

\* The same, with every colour of one group further than 30 from every
\* colour of the other.
TwoSeparateColors(S) ==
    /\ ~OneColor(S)
    /\ \E G \in SUBSET S :
           /\ OneColor(G)
           /\ OneColor(S \ G)
           /\ \A c \in G, d \in S \ G : ~WithinThirty(c, d)

\* C5 as stated: a line whose pixels take on exactly 2 distinct colours (no
\* two further than 30 apart) is classified as text, and a line whose
\* colours form 1 or >= 3 buckets is not.
C5_TwoColorsIsText ==
    \A k \in Decided :
        /\ TwoColors(Range(ColorsOf(sanitised[k]))) => IsText(k)
        /\ Len(BucketsOf(ColorsOf(sanitised[k]))) # 2 => ~IsText(k)

\* C5 as amended: a line whose pixels' colours fall into two groups, no two
\* colours of a group further than 30 apart and every two colours of
\* different groups further than 30 apart, is classified as text, and a
\* line whose colours form 1 or >= 3 buckets is not.
C5_TwoSeparateColorsIsText ==
    \A k \in Decided :
        /\ TwoSeparateColors(Range(ColorsOf(sanitised[k]))) => IsText(k)
        /\ Len(BucketsOf(ColorsOf(sanitised[k]))) # 2 => ~IsText(k)

\* A text line of three colour values in two separate groups.
C5_Witness ==
    /\ 1 \in Decided
    /\ IsText(1)
    /\ Cardinality(Range(ColorsOf(sanitised[1]))) = 3
    /\ TwoSeparateColors(Range(ColorsOf(sanitised[1])))

\* C6: the stroke colour of a text line is the representative of the more
\* frequent bucket when the buckets are matched in insertion order, the
\* first-created bucket on equal frequencies.
C6_StrokeColor ==
    \A i \in DOMAIN text_lines :
        text_lines[i].stroke_color = StrokeOf(ColorsOf(text_lines[i].line))

\* C10: whatever order the map's keys are visited in, the representatives
\* are those of the insertion-order scan, and a line is classified as text
\* exactly when that scan yields two buckets.
C10_OrderIndependent ==
    /\ (pc = "text_lines" /\ cur <= Len(sanitised)) =>
           DOMAIN color_freqs =
               {b.rep : b \in Range(BucketsOf(SubSeq(ColorsOf(sanitised[cur]),
                                                     1, idx - 1)))}
    /\ \A k \in Decided :
           IsText(k) <=> Len(BucketsOf(ColorsOf(sanitised[k]))) = 2

\* Every pixel of a line is counted, in two buckets, with frequencies that
\* the insertion-order scan does not give.
C10_Witness ==
    /\ pc = "text_lines"
    /\ cur <= Len(sanitised)
    /\ idx > Len(sanitised[cur].pixels)
    /\ IsTwoColors(color_freqs)
    /\ \E b \in Range(BucketsOf(ColorsOf(sanitised[cur]))) :
           color_freqs[b.rep] # b.freq
    /\ \E b \in Range(BucketsOf(ColorsOf(sanitised[cur]))) :
           color_freqs[b.rep] # b.freq

(***************************************************************************)
(* Specification PipeSpec: the whole of main on a 10 x 10 black image with *)
(* a solid 3 x 3 white square that does not touch the border, and on a     *)
(* 20 x 5 black image with a solid 10 x 2 white bar.                       *)
(***************************************************************************)
BLACK == <<0, 0, 0>>
WHITE == <<255, 255, 255>>

\* A w x h black image with a white rectangle of rw x rh pixels at o.
Rectangle(w, h, o, rw, rh) ==
    [p \in Grid(w, h) |-> IF p \in Window(o, rw, rh) THEN WHITE ELSE BLACK]

SquareImages == {Rectangle(10, 10, <<sx, sy>>, 3, 3) : sx \in 1 .. 6, sy \in 1 .. 6}
BarImages    == {Rectangle(20, 5, <<bx, by>>, 10, 2) : bx \in {4, 5}, by \in {1, 2}}

PipeInit ==
    /\ \/ width = 10 /\ height = 10 /\ image \in SquareImages
       \/ width = 20 /\ height = 5 /\ image \in BarImages
    /\ raw = [p \in Grid(width, height) |-> 0]
    /\ buffer = raw
    /\ threshold = LINE_THRESHOLD
    /\ pc = "filter"
    /\ Idle

PipeNext ==
    \/ Filter
    \/ GetActivationStats
    \/ StartLine
    \/ Pop
    \/ EndLine
    \/ ReturnLines
    \/ GetLinesStats
    \/ SanitiseLines
    \/ CountPixel
    \/ Classify
    \/ ReturnTextLines
    \/ Save

PipeSpec == PipeInit /\ [][PipeNext]_vars

\* The white pixels of the image, and the distance of the nearest of them
\* to the border.
WhitePixels == {p \in DOMAIN image : image[p] = WHITE}

Margin ==
    MinOf({p[1] : p \in WhitePixels} \cup {p[2] : p \in WhitePixels}
          \cup {width - 1 - p[1] : p \in WhitePixels}
          \cup {height - 1 - p[2] : p \in WhitePixels})

\* main has run on the image of the square up to the end of sanitise_lines.
SquareSanitised ==
    image \in SquareImages /\ pc \in {"text_lines", "save", "done"}

\* C8 as stated: the 10 x 10 image with the 3 x 3 square produces exactly one
\* raw cluster, of 9 pixels, with area 9 and density 1.0, and sanitise_lines
\* drops it because its width and height are 2 < 8.
C8_NinePixelCluster ==
    SquareSanitised =>
        /\ Len(lines) = 1
        /\ Len(lines[1]) = 9
        /\ lines_stats[1].area = 9
        /\ Len(lines_stats[1].pixels) = lines_stats[1].area
        /\ lines_stats[1].dx = 2
        /\ lines_stats[1].dy = 2
        /\ sanitised = <<>>

\* C8 as amended: it produces exactly one raw cluster, which holds the 9
\* pixels of the square and the activated pixels around it, 33 to 44 pixels
\* in a bounding box of area 36 to 49 that it does not fill; with the
\* square two or more pixels from the border the cluster has 41 to 44
\* pixels, area 49, width and height 6.  sanitise_lines drops it because
\* its width and height are at most 6 < 8.
C8_SquareCluster ==
    SquareSanitised =>
        /\ Len(lines) = 1
        /\ WhitePixels \subseteq Range(lines[1])
        /\ Len(lines[1]) \in 33 .. 44
        /\ lines_stats[1].area \in 36 .. 49
        /\ Len(lines_stats[1].pixels) < lines_stats[1].area
        /\ lines_stats[1].dx \in 5 .. 6
        /\ lines_stats[1].dy \in 5 .. 6
        /\ Margin >= 2 =>
               /\ Len(lines[1]) \in 41 .. 44
               /\ lines_stats[1].area = 49
               /\ lines_stats[1].dx = 6
               /\ lines_stats[1].dy = 6
        /\ sanitised = <<>>

\* The square three pixels from the border: a cluster of 41 pixels.
C8_Witness ==
    /\ SquareSanitised
    /\ Margin >= 3
    /\ Len(lines[1]) = 41
    /\ sanitised = <<>>

\* C9: the activation image main saves is pixel for pixel the map that
\* difference_filter produced.
C9_SavedIsRawMap == pc = "done" => saved = raw

====
